---------------------------- MODULE Spec2Model ----------------------------
(***************************************************************************)
(* A model of infiniax-deno-proxy (src/main.ts): the handler of one        *)
(* inbound call, from routing to the last frame of its reply.              *)
(*                                                                         *)
(* A JavaScript string is a sequence of characters, each a one-character   *)
(* TLA+ string; "é" is the one two-byte character of the alphabet and      *)
(* "FFFD" is U+FFFD, the replacement character.  The upstream body is a    *)
(* sequence of bytes: an ASCII byte is written as its character, and "é"   *)
(* is the two bytes "C3" "A9".                                             *)
(***************************************************************************)
EXTENDS Naturals, Sequences, FiniteSets, TLC

NL == "\n"
QUOTE == "\""

(***************************************************************************)
(* Text primitives                                                         *)
(***************************************************************************)

\* s.slice(n), n >= 0
Slice(s, n) == SubSeq(s, n + 1, Len(s))

\* s.startsWith(p)
StartsWith(s, p) == Len(s) >= Len(p) /\ SubSeq(s, 1, Len(p)) = p

SetMin(S) == CHOOSE m \in S : \A n \in S : m <= n

RECURSIVE Flatten(_)
\* the concatenation of a sequence of sequences
Flatten(ss) == IF ss = <<>> THEN <<>> ELSE Head(ss) \o Flatten(Tail(ss))

\* new TextDecoder().decode(bytes): UTF-8 decoding of one block of bytes with a
\* decoder of its own, so that a character whose bytes are not both in the block
\* decodes to U+FFFD for each part of it the block holds.
TextDecode(bytes) ==
  LET Continues(i) == bytes[i] = "A9" /\ i > 1 /\ bytes[i - 1] = "C3"
      At(i) == IF Continues(i) THEN ""
               ELSE IF bytes[i] = "C3"
                    THEN IF i < Len(bytes) /\ bytes[i + 1] = "A9" THEN "é" ELSE "FFFD"
               ELSE IF bytes[i] = "A9" THEN "FFFD"
               ELSE bytes[i]
      Present(c) == c # ""
  IN SelectSeq([i \in 1..Len(bytes) |-> At(i)], Present)

\* s.split('\n\n'): the pieces between the non-overlapping occurrences of the
\* separator, found left to right; never empty.
RECURSIVE SplitRecords(_)
SplitRecords(s) ==
  LET at == {i \in 1..(Len(s) - 1) : s[i] = NL /\ s[i + 1] = NL}
  IN IF at = {} THEN <<s>>
     ELSE LET i == SetMin(at)
          IN <<SubSeq(s, 1, i - 1)>> \o SplitRecords(Slice(s, i + 1))

\* s.split('\n')
RECURSIVE SplitLines(_)
SplitLines(s) ==
  LET at == {i \in 1..Len(s) : s[i] = NL}
  IN IF at = {} THEN <<s>>
     ELSE LET i == SetMin(at)
          IN <<SubSeq(s, 1, i - 1)>> \o SplitLines(Slice(s, i))

(***************************************************************************)
(* JSON.parse, on the alphabet of the upstream bodies: objects, strings     *)
(* without escapes, true, false, null, and white space.  A value is         *)
(* [t, v]; a failure ([ok |-> FALSE]) is the SyntaxError JSON.parse throws. *)
(***************************************************************************)

JsonWs == {" ", NL}

JsonFail == [ok |-> FALSE]

\* the first position at or after i that holds no white space
SkipWs(s, i) ==
  LET stop == {j \in i..Len(s) : s[j] \notin JsonWs}
  IN IF stop = {} THEN Len(s) + 1 ELSE SetMin(stop)

Literal(s, i, word) == i + Len(word) - 1 <= Len(s) /\ SubSeq(s, i, i + Len(word) - 1) = word

\* a string that opens at i: it closes at the next quote, and holds no line break
JsonString(s, i) ==
  LET close == {j \in (i + 1)..Len(s) : s[j] = QUOTE}
  IN IF close = {} THEN JsonFail
     ELSE LET j == SetMin(close)
              body == SubSeq(s, i + 1, j - 1)
          IN IF \E k \in 1..Len(body) : body[k] = NL THEN JsonFail
             ELSE [ok |-> TRUE, val |-> [t |-> "str", v |-> body], next |-> j + 1]

RECURSIVE JsonValue(_, _)
RECURSIVE JsonMembers(_, _, _)

\* the members of an object from i (a key is expected there) on, added to acc
JsonMembers(s, i, acc) ==
  LET k == SkipWs(s, i)
  IN IF k > Len(s) \/ s[k] # QUOTE THEN JsonFail
     ELSE LET key == JsonString(s, k)
          IN IF ~key.ok THEN JsonFail
             ELSE LET c == SkipWs(s, key.next)
                  IN IF c > Len(s) \/ s[c] # ":" THEN JsonFail
                     ELSE LET val == JsonValue(s, c + 1)
                          IN IF ~val.ok THEN JsonFail
                             ELSE LET e == SkipWs(s, val.next)
                                      obj == (key.val.v :> val.val) @@ acc
                                  IN IF e > Len(s) THEN JsonFail
                                     ELSE IF s[e] = "," THEN JsonMembers(s, e + 1, obj)
                                     ELSE IF s[e] = "}"
                                          THEN [ok |-> TRUE, val |-> [t |-> "obj", v |-> obj],
                                                next |-> e + 1]
                                          ELSE JsonFail

JsonValue(s, i) ==
  LET k == SkipWs(s, i)
  IN IF k > Len(s) THEN JsonFail
     ELSE IF s[k] = "{"
          THEN LET m == SkipWs(s, k + 1)
               IN IF m <= Len(s) /\ s[m] = "}"
                  THEN [ok |-> TRUE, val |-> [t |-> "obj", v |-> <<>>], next |-> m + 1]
                  ELSE JsonMembers(s, k + 1, <<>>)
     ELSE IF s[k] = QUOTE THEN JsonString(s, k)
     ELSE IF Literal(s, k, <<"t", "r", "u", "e">>)
          THEN [ok |-> TRUE, val |-> [t |-> "bool", v |-> TRUE], next |-> k + 4]
     ELSE IF Literal(s, k, <<"f", "a", "l", "s", "e">>)
          THEN [ok |-> TRUE, val |-> [t |-> "bool", v |-> FALSE], next |-> k + 5]
     ELSE IF Literal(s, k, <<"n", "u", "l", "l">>)
          THEN [ok |-> TRUE, val |-> [t |-> "null", v |-> FALSE], next |-> k + 4]
     ELSE JsonFail

\* JSON.parse(s): one value, white space around it, and nothing else
JsonParse(s) ==
  LET r == JsonValue(s, 1)
  IN IF r.ok /\ SkipWs(s, r.next) > Len(s) THEN [ok |-> TRUE, val |-> r.val] ELSE JsonFail

(***************************************************************************)
(* JavaScript values: a JSON value is [t, v] with t in "obj", "arr", "str", *)
(* "num", "bool", "null"; the v of an object maps its keys to values.       *)
(***************************************************************************)

Undefined == [t |-> "undefined", v |-> FALSE]
JsNull == [t |-> "null", v |-> FALSE]
JsTrue == [t |-> "bool", v |-> TRUE]
JsFalse == [t |-> "bool", v |-> FALSE]
Str(s) == [t |-> "str", v |-> s]
Num(n) == [t |-> "num", v |-> n]
Arr(a) == [t |-> "arr", v |-> a]
Obj(f) == [t |-> "obj", v |-> f]

\* ToBoolean(val): what `if (val)` and `!val` test
Truthy(val) ==
  CASE val.t = "undefined" -> FALSE
    [] val.t = "null" -> FALSE
    [] val.t = "bool" -> val.v
    [] val.t = "num" -> val.v # 0
    [] val.t = "str" -> Len(val.v) > 0
    [] OTHER -> TRUE

\* val.key throws a TypeError on null (and undefined)
Throws(val) == val.t \in {"null", "undefined"}

\* val.key where it does not throw: the member of an object, undefined otherwise
Get(val, key) ==
  IF val.t = "obj" /\ key \in DOMAIN val.v THEN val.v[key] ELSE Undefined

\* String(val), as `content += val` converts val
ToJsString(val) ==
  CASE val.t = "str" -> val.v
    [] val.t = "bool" -> IF val.v THEN <<"t", "r", "u", "e">> ELSE <<"f", "a", "l", "s", "e">>
    [] val.t = "null" -> <<"n", "u", "l", "l">>
    [] OTHER -> <<"[", "o", "b", "j", "e", "c", "t", " ", "O", "b", "j", "e", "c", "t", "]">>

(***************************************************************************)
(* Request transformation                                                  *)
(***************************************************************************)

transformRequestAlwaysFlag(openaiReq) ==
  [modelId |-> Get(openaiReq, "model"),
   messages |-> Get(openaiReq, "messages"),
   webSearchEnabled |-> IF Truthy(Get(openaiReq, "web_search")) THEN JsTrue ELSE JsFalse]

\* the upstream request: a JavaScript object as the function from its keys
transformRequest(openaiReq) ==
  [modelId |-> Get(openaiReq, "model"), messages |-> Get(openaiReq, "messages")]
  @@ (IF Truthy(Get(openaiReq, "web_search")) THEN [webSearchEnabled |-> JsTrue] ELSE <<>>)

(***************************************************************************)
(* Response transformation                                                 *)
(***************************************************************************)

\* finish_reason: null
NoFinish == "null"

\* the frame `data: ${JSON.stringify(chunk)}\n\n`, kept as the object it carries
transformStreamChunk(content, model, responseId, created, isFirst) ==
  [kind |-> "json",
   data |-> [id |-> responseId,
             object |-> "chat.completion.chunk",
             created |-> created,
             model |-> model,
             choices |-> <<[index |-> 0,
                            delta |-> IF isFirst
                                      THEN [role |-> "assistant", content |-> content]
                                      ELSE [content |-> content],
                            finish_reason |-> NoFinish]>>]]

\* the literal `data: [DONE]\n\n`
DoneFrame == [kind |-> "done"]

\* the terminal chunk stamped with the time of the end of the stream
createStreamEndChunkRestamped(model, responseId, created) ==
  <<[kind |-> "json",
     data |-> [id |-> responseId,
               object |-> "chat.completion.chunk",
               created |-> created + 1,
               model |-> model,
               choices |-> <<[index |-> 0, delta |-> <<>>, finish_reason |-> "stop"]>>]],
    DoneFrame>>

\* the two frames of the stream end marker, enqueued as one block
createStreamEndChunk(model, responseId, created) ==
  <<[kind |-> "json",
     data |-> [id |-> responseId,
               object |-> "chat.completion.chunk",
               created |-> created,
               model |-> model,
               choices |-> <<[index |-> 0, delta |-> <<>>, finish_reason |-> "stop"]>>]],
    DoneFrame>>

transformResponse(content, model, id, created) ==
  [id |-> id,
   object |-> "chat.completion",
   created |-> created,
   model |-> model,
   choices |-> <<[index |-> 0,
                  message |-> [role |-> "assistant", content |-> content],
                  finish_reason |-> "stop"]>>]

(***************************************************************************)
(* Error responses                                                         *)
(***************************************************************************)

\* the body as { error: { message, type: 'proxy_error' } }
errorResponseTyped(message, status) ==
  [status |-> status,
   contentType |-> "application/json",
   body |-> [error |-> [message |-> message, type |-> "proxy_error"]]]

errorResponse(message, status) ==
  [status |-> status,
   contentType |-> "application/json",
   body |-> [error |-> [message |-> message]]]

handleUpstreamErrorPassThrough(status) ==
  IF status = 401 \/ status = 403
  THEN errorResponse("Authentication failed", status)
  ELSE errorResponse("Upstream error", status)

handleUpstreamError(status) ==
  IF status = 401 \/ status = 403
  THEN errorResponse("Authentication failed", 401)
  ELSE errorResponse("Upstream error", 502)

(***************************************************************************)
(* The upstream's records                                                  *)
(***************************************************************************)

Prefix == <<"d", "a", "t", "a", ":", " ">>
\* the 6 of msg.slice(6)
PrefixLen == 6
ChunkKey == <<"c", "h", "u", "n", "k">>

\* one pass of the body of `try { data = JSON.parse(record.slice(6)); if
\* (data.chunk) ... } catch {}` over a record (msg, buffer or line) that starts
\* with the prefix: whether the chunk is emitted, and whether the body threw (a
\* SyntaxError of JSON.parse, a TypeError of reading .chunk of null)
RecordChunk(record) ==
  IF ~StartsWith(record, Prefix) THEN [emit |-> FALSE, threw |-> FALSE]
  ELSE LET data == JsonParse(Slice(record, PrefixLen))
       IN IF ~data.ok THEN [emit |-> FALSE, threw |-> TRUE]
          ELSE IF Throws(data.val) THEN [emit |-> FALSE, threw |-> TRUE]
          ELSE IF Truthy(Get(data.val, ChunkKey))
               THEN [emit |-> TRUE, threw |-> FALSE, chunk |-> Get(data.val, ChunkKey)]
               ELSE [emit |-> FALSE, threw |-> FALSE]

(***************************************************************************)
(* The streaming path: the state of one TransformStream                    *)
(***************************************************************************)

\* the closure of handleStreamingResponse: out is what the controller was handed
StreamState(model, responseId, created) ==
  [model |-> model, responseId |-> responseId, created |-> created,
   isFirst |-> TRUE, buffer |-> <<>>, out |-> <<>>]

\* the for loop without its inner try: a record that throws ends the loop in the
\* outer catch
RECURSIVE ProcessMessagesOuterCatch(_, _)
ProcessMessagesOuterCatch(st, messages) ==
  IF messages = <<>> THEN st
  ELSE LET data == RecordChunk(Head(messages))
       IN IF data.threw THEN st
          ELSE IF data.emit
          THEN ProcessMessagesOuterCatch(
                 [st EXCEPT !.out = Append(@, transformStreamChunk(data.chunk, st.model,
                                              st.responseId, st.created, st.isFirst)),
                            !.isFirst = FALSE],
                 Tail(messages))
          ELSE ProcessMessagesOuterCatch(st, Tail(messages))

\* the for loop with a record {"done": true} taken as the end of the stream: the
\* end marker is enqueued when it is met
RECURSIVE ProcessMessagesEndOnDone(_, _)
ProcessMessagesEndOnDone(st, messages) ==
  IF messages = <<>> THEN st
  ELSE LET data == RecordChunk(Head(messages))
           json == JsonParse(Slice(Head(messages), PrefixLen))
           done == /\ StartsWith(Head(messages), Prefix)
                   /\ json.ok
                   /\ Truthy(Get(json.val, <<"d", "o", "n", "e">>))
       IN IF done
          THEN ProcessMessagesEndOnDone(
                 [st EXCEPT !.out = @ \o createStreamEndChunk(st.model, st.responseId,
                                                              st.created)],
                 Tail(messages))
          ELSE IF data.emit
          THEN ProcessMessagesEndOnDone(
                 [st EXCEPT !.out = Append(@, transformStreamChunk(data.chunk, st.model,
                                              st.responseId, st.created, st.isFirst)),
                            !.isFirst = FALSE],
                 Tail(messages))
          ELSE ProcessMessagesEndOnDone(st, Tail(messages))

\* the for loop of transform over the complete messages
RECURSIVE ProcessMessages(_, _)
ProcessMessages(st, messages) ==
  IF messages = <<>> THEN st
  ELSE LET data == RecordChunk(Head(messages))
       IN IF data.emit
          THEN ProcessMessages(
                 [st EXCEPT !.out = Append(@, transformStreamChunk(data.chunk, st.model,
                                              st.responseId, st.created, st.isFirst)),
                            !.isFirst = FALSE],
                 Tail(messages))
          ELSE ProcessMessages(st, Tail(messages))

\* transform without `buffer = messages.pop()`: the buffer keeps all the text
transformKeepBuffer(st, chunk) ==
  LET text == st.buffer \o TextDecode(chunk)
      messages == SplitRecords(text)
  IN ProcessMessages([st EXCEPT !.buffer = text],
                     SubSeq(messages, 1, Len(messages) - 1))

\* transform(chunk, controller)
transform(st, chunk) ==
  LET text == st.buffer \o TextDecode(chunk)
      messages == SplitRecords(text)
  IN ProcessMessages([st EXCEPT !.buffer = messages[Len(messages)]],
                     SubSeq(messages, 1, Len(messages) - 1))

\* flush without the pass over the leftover buffer
flushNoLeftover(st) ==
  [st EXCEPT !.out = @ \o createStreamEndChunk(st.model, st.responseId, st.created)]

\* flush with transformStreamChunk called without isFirst, which defaults to false
flushDefaultIsFirst(st) ==
  LET data == RecordChunk(st.buffer)
      last == IF data.emit
              THEN <<transformStreamChunk(data.chunk, st.model, st.responseId,
                                          st.created, FALSE)>>
              ELSE <<>>
  IN [st EXCEPT !.out = @ \o last \o createStreamEndChunk(st.model, st.responseId, st.created)]

\* flush(controller)
flush(st) ==
  LET data == RecordChunk(st.buffer)
      last == IF data.emit
              THEN <<transformStreamChunk(data.chunk, st.model, st.responseId,
                                          st.created, st.isFirst)>>
              ELSE <<>>
  IN [st EXCEPT !.out = @ \o last \o createStreamEndChunk(st.model, st.responseId, st.created)]

(***************************************************************************)
(* The non-streaming path                                                  *)
(***************************************************************************)

RECURSIVE ParseLines(_, _)
ParseLines(lines, content) ==
  IF lines = <<>> THEN content
  ELSE LET data == RecordChunk(Head(lines))
       IN ParseLines(Tail(lines),
                     IF data.emit THEN content \o ToJsString(data.chunk) ELSE content)

\* parseInfiniaxSSE ending in `return content || sseText`
parseInfiniaxSSEFallback(sseText) ==
  LET content == ParseLines(SplitLines(sseText), <<>>)
  IN IF content = <<>> THEN sseText ELSE content

parseInfiniaxSSE(sseText) == ParseLines(SplitLines(sseText), <<>>)

(***************************************************************************)
(* The upstream's bodies: records in the format the source documents,      *)
(* `data: {"chunk":"text"}\n\ndata: {"done":true}\n\n`                      *)
(***************************************************************************)

MaxRecords == 3
MaxSmallChunk == 2
MaxPending == 1
NumCalls == 2

ChunkPayload(text) ==
  <<"{", QUOTE>> \o ChunkKey \o <<QUOTE, ":", QUOTE>> \o text \o <<QUOTE, "}">>

DonePayload == <<"{", QUOTE, "d", "o", "n", "e", QUOTE, ":", "t", "r", "u", "e", "}">>

RecordKinds == {"a", "e", "done", "empty", "bad", "two", "span"}

\* the bytes of one record, without the separator that ends it; the fragment
\* of "e" is the character "é"
RecordBytes(kind) ==
  CASE kind = "a" -> Prefix \o ChunkPayload(<<"a">>)
    [] kind = "e" -> Prefix \o ChunkPayload(<<"C3", "A9">>)
    [] kind = "done" -> Prefix \o DonePayload
    [] kind = "empty" -> Prefix \o ChunkPayload(<<>>)
    [] kind = "bad" -> Prefix \o <<"{", "n", "o", "t", " ", "j", "s", "o", "n">>
    [] kind = "two" -> Prefix \o ChunkPayload(<<"a">>) \o <<NL>> \o Prefix \o ChunkPayload(<<"b">>)
    [] kind = "span" -> Prefix \o <<"{", QUOTE>> \o ChunkKey \o <<QUOTE, ":", NL, QUOTE, "a", QUOTE, "}">>

Separator == <<NL, NL>>

\* what a record is under the protocol: "a", "e": a well-formed record with that
\* fragment; "none": a well-formed record without a fragment; "bad": a payload
\* that is no JSON; "multi": several lines in one record
RecordClass(kind) ==
  CASE kind \in {"a", "span"} -> "a"
    [] kind = "e" -> "e"
    [] kind \in {"done", "empty"} -> "none"
    [] kind = "bad" -> "bad"
    [] kind = "two" -> "multi"

\* the sizes of the next block of bytes, of which rem are in flight
ChunkSizes(rem) == {n \in (1..MaxSmallChunk) \cup {rem} : n >= 1 /\ n <= rem}

UpstreamStatuses == {200, 204, 401, 403, 404, 500, 503}

\* Response.ok
Ok(status) == status >= 200 /\ status <= 299

\* a response whose body is null
NullBodyStatus(status) == status = 204

\* generateId(): one call is modelled, and one id
ResponseIds == {"chatcmpl-0"}

(***************************************************************************)
(* The inbound requests                                                    *)
(***************************************************************************)

UserMsg == [role |-> "user", content |-> "hi"]
AssistantMsg == [role |-> "assistant", content |-> "hello"]
ModelM == Str(<<"m">>)

\* the parsed body of a POST, or InvalidJson where req.json() throws
InvalidJson == [t |-> "invalid", v |-> FALSE]

ChatBodies ==
  {InvalidJson, JsNull, Num(1), Str(<<"m">>), Arr(<<>>),
   Obj(<<>>),
   Obj([messages |-> Arr(<<>>)]),
   Obj([model |-> ModelM]),
   Obj([model |-> Str(<<>>), messages |-> Arr(<<UserMsg>>)]),
   Obj([model |-> ModelM, messages |-> JsNull]),
   Obj([model |-> ModelM, messages |-> Arr(<<>>)]),
   Obj([model |-> ModelM, messages |-> Arr(<<UserMsg>>), stream |-> JsFalse]),
   Obj([model |-> ModelM, messages |-> Arr(<<UserMsg, AssistantMsg, UserMsg>>),
        web_search |-> JsTrue]),
   Obj([model |-> ModelM, messages |-> Arr(<<UserMsg>>), web_search |-> JsFalse,
        stream |-> Str(<<"t", "r", "u", "e">>)]),
   Obj([model |-> ModelM, messages |-> Arr(<<UserMsg>>), web_search |-> Str(<<"y">>),
        stream |-> Num(1)]),
   Obj([model |-> ModelM, messages |-> Arr(<<UserMsg, AssistantMsg>>), stream |-> JsTrue,
        web_search |-> Num(1)])}

ChatPath == "/v1/chat/completions"
ModelsPath == "/v1/models"

Requests ==
  {[method |-> "POST", path |-> ChatPath, body |-> b] : b \in ChatBodies}
  \cup {[method |-> m, path |-> p, body |-> InvalidJson] :
          m \in {"GET", "POST", "PUT"}, p \in {"/", ChatPath, ModelsPath, "/v1/other"}}

(***************************************************************************)
(* The state of one inbound call                                           *)
(***************************************************************************)

VARIABLES
  pc,          \* where the call is: Received, Validated, UpstreamSent,
               \* StreamingReply, AggregatedReply, Done, Failed
  req,         \* the inbound request
  resp,        \* the Response returned to the caller (NoResponse: none yet)
  fetches,     \* the number of calls of fetch
  sent,        \* the body of the outbound POST, before JSON.stringify
  up,          \* the upstream's response: its status, whether it has a body, the
               \* bytes in flight (written, not yet read by the pipe), whether
               \* its last record was written without a separator, and whether
               \* its body has been cancelled
  raw,         \* the bytes text() has read
  st,          \* the closure of handleStreamingResponse
  downstream,  \* the readable side handed to the caller: none, open, closed, errored,
               \* cancelled
  script,      \* history: the class of each record the upstream has written
  splitChar    \* history: a block of bytes has ended inside a character

\* the calls in flight together (the state above is that of one call, taken
\* through all its stages; the streams of several calls are followed here)
VARIABLES
  calls,       \* for each call in flight: its id, model and timestamp, the frames
               \* it has enqueued, the bytes of its upstream body not yet piped,
               \* and whether its body is still open
  closures,    \* the `let isFirst` and `let buffer` of handleStreamingResponse,
               \* one pair for each invocation
  alone        \* history: for each call, the closure and frames of a stream that
               \* is given the same blocks with no other call in flight

single == <<pc, req, resp, fetches, sent, up, raw, st, downstream, script, splitChar>>
streams == <<calls, closures, alone>>
vars == <<pc, req, resp, fetches, sent, up, raw, st, downstream, script, splitChar,
          calls, closures, alone>>

\* Math.floor(Date.now() / 1000): the call starts at second 1, and a second
\* passes with each record the upstream writes
Now == 1 + Len(script)

NoResponse == [status |-> 0, contentType |-> "", body |-> <<>>]
NoUpstream == [status |-> 0, hasBody |-> FALSE, pending |-> <<>>, openTail |-> FALSE,
               cancelled |-> FALSE]
NoStream == [model |-> Undefined, responseId |-> "", created |-> 0,
             isFirst |-> TRUE, buffer |-> <<>>, out |-> <<>>]
NotSent == <<>>

\* the calls in flight together
Calls == 1..NumCalls

NoCall == [responseId |-> "", model |-> Undefined, created |-> 0, out |-> <<>>,
           pending |-> <<>>, open |-> FALSE]
NoClosure == [isFirst |-> TRUE, buffer |-> <<>>]

Init ==
  /\ pc = "Received"
  /\ req \in Requests
  /\ resp = NoResponse
  /\ fetches = 0
  /\ sent = NotSent
  /\ up = NoUpstream
  /\ raw = <<>>
  /\ st = NoStream
  /\ downstream = "none"
  /\ script = <<>>
  /\ splitChar = FALSE
  /\ calls = [c \in Calls |-> NoCall]
  /\ closures = [c \in Calls |-> NoClosure]
  /\ alone = [c \in Calls |-> NoStream]

\* the test written as `if (openaiReq.stream)`
isStreamingTruthy(openaiReq) == Truthy(Get(openaiReq, "stream"))

\* openaiReq.stream === true
isStreaming(openaiReq) ==
  LET s == Get(openaiReq, "stream") IN s.t = "bool" /\ s.v = TRUE

INFINIAX_MODELS ==
  <<[id |-> "meta-llama/llama-3.3-70b-instruct:free", provider |-> "Meta"],
    [id |-> "arcee-ai/trinity-mini:free", provider |-> "Arcee AI"]>>

\* m.provider.toLowerCase().replace(/\s+/g, "-")
OwnedBy(provider) ==
  CASE provider = "Meta" -> "meta"
    [] provider = "Arcee AI" -> "arcee-ai"

handleModels(created) ==
  [status |-> 200,
   contentType |-> "application/json",
   body |-> [object |-> "list",
             data |-> [i \in 1..Len(INFINIAX_MODELS) |->
                         [id |-> INFINIAX_MODELS[i].id, object |-> "model",
                          created |-> created,
                          owned_by |-> OwnedBy(INFINIAX_MODELS[i].provider)]]]]

HealthResponse ==
  [status |-> 200,
   contentType |-> "application/json",
   body |-> [status |-> "ok", service |-> "infiniax-deno-proxy", version |-> "1.0.0"]]

\* the validation with `if (!openaiReq.model)` alone
validateChatModelOnly(body) ==
  IF body.t = "invalid" THEN errorResponse("Invalid JSON", 400)
  ELSE IF Throws(body) THEN errorResponse("Internal server error", 500)
  ELSE IF ~Truthy(Get(body, "model"))
       THEN errorResponse("Missing required fields: model and messages", 400)
       ELSE NoResponse

\* handleChatCompletions up to the call of fetch: the Response it returns, or
\* NoResponse where it goes on to the upstream
validateChat(body) ==
  IF body.t = "invalid" THEN errorResponse("Invalid JSON", 400)
  ELSE IF Throws(body) THEN errorResponse("Internal server error", 500)
  ELSE IF ~Truthy(Get(body, "model")) \/ ~Truthy(Get(body, "messages"))
       THEN errorResponse("Missing required fields: model and messages", 400)
       ELSE NoResponse

\* handler with routes that compare the path alone
handlerPathOnly ==
  /\ pc = "Received"
  /\ \E created \in {Now} :
       LET r == IF req.path = "/" THEN HealthResponse
                ELSE IF req.path = ChatPath THEN validateChat(req.body)
                ELSE IF req.path = ModelsPath THEN handleModels(created)
                ELSE errorResponse("Not Found", 404)
       IN /\ resp' = r
          /\ pc' = IF r = NoResponse THEN "Validated"
                   ELSE IF r.status = 200 THEN "Done" ELSE "Failed"
  /\ UNCHANGED <<req, fetches, sent, up, raw, st, downstream, script, splitChar>>
  /\ UNCHANGED streams

\* handler(req): the routes, and the chat handler up to its validation
handler ==
  /\ pc = "Received"
  /\ \E created \in {Now} :
       LET r == IF req.path = "/" /\ req.method = "GET" THEN HealthResponse
                ELSE IF req.path = ChatPath /\ req.method = "POST" THEN validateChat(req.body)
                ELSE IF req.path = ModelsPath /\ req.method = "GET" THEN handleModels(created)
                ELSE errorResponse("Not Found", 404)
       IN /\ resp' = r
          /\ pc' = IF r = NoResponse THEN "Validated"
                   ELSE IF r.status = 200 THEN "Done" ELSE "Failed"
  /\ UNCHANGED <<req, fetches, sent, up, raw, st, downstream, script, splitChar>>
  /\ UNCHANGED streams

\* the call of fetch preceded by a second one
sendUpstreamTwice ==
  /\ pc = "Validated"
  /\ sent' = transformRequest(req.body)
  /\ fetches' = fetches + 2
  /\ pc' = "UpstreamSent"
  /\ UNCHANGED <<req, resp, up, raw, st, downstream, script, splitChar>>
  /\ UNCHANGED streams

\* handleChatCompletions: transformRequest and the call of fetch
sendUpstream ==
  /\ pc = "Validated"
  /\ sent' = transformRequest(req.body)
  /\ fetches' = fetches + 1
  /\ pc' = "UpstreamSent"
  /\ UNCHANGED <<req, resp, up, raw, st, downstream, script, splitChar>>
  /\ UNCHANGED streams

\* a rejected fetch followed by another attempt
fetchThrowsRetry ==
  /\ pc = "UpstreamSent"
  /\ pc' = "Validated"
  /\ UNCHANGED <<req, resp, fetches, sent, up, raw, st, downstream, script, splitChar>>
  /\ UNCHANGED streams

\* fetch rejects: a network error
fetchThrows ==
  /\ pc = "UpstreamSent"
  /\ resp' = errorResponse("Upstream error", 502)
  /\ pc' = "Failed"
  /\ UNCHANGED <<req, fetches, sent, up, raw, st, downstream, script, splitChar>>
  /\ UNCHANGED streams

\* fetch resolves with a status that is not ok
upstreamNotOk ==
  /\ pc = "UpstreamSent"
  /\ \E status \in UpstreamStatuses :
       /\ ~Ok(status)
       /\ up' = [NoUpstream EXCEPT !.status = status]
       /\ resp' = handleUpstreamError(status)
  /\ pc' = "Failed"
  /\ UNCHANGED <<req, fetches, sent, raw, st, downstream, script, splitChar>>
  /\ UNCHANGED streams

\* fetch resolves ok for a streaming request: handleStreamingResponse
handleStreamingResponse ==
  /\ pc = "UpstreamSent"
  /\ isStreaming(req.body)
  /\ \E status \in UpstreamStatuses, id \in ResponseIds, created \in {Now} :
       /\ Ok(status)
       /\ up' = [NoUpstream EXCEPT !.status = status, !.hasBody = ~NullBodyStatus(status)]
       /\ IF NullBodyStatus(status)
          THEN /\ resp' = errorResponse("No response body from upstream", 502)
               /\ pc' = "Failed"
               /\ UNCHANGED <<st, downstream>>
          ELSE /\ st' = StreamState(Get(req.body, "model"), id, created)
               /\ resp' = [status |-> 200, contentType |-> "text/event-stream",
                           body |-> [stream |-> TRUE]]
               /\ downstream' = "open"
               /\ pc' = "StreamingReply"
  /\ UNCHANGED <<req, fetches, sent, raw, script, splitChar>>
  /\ UNCHANGED streams

\* fetch resolves ok for a request that does not stream: handleNonStreamingResponse
\* up to its await of text()
awaitText ==
  /\ pc = "UpstreamSent"
  /\ ~isStreaming(req.body)
  /\ \E status \in UpstreamStatuses :
       /\ Ok(status)
       /\ up' = [NoUpstream EXCEPT !.status = status, !.hasBody = ~NullBodyStatus(status)]
  /\ pc' = "AggregatedReply"
  /\ UNCHANGED <<req, resp, fetches, sent, raw, st, downstream, script, splitChar>>
  /\ UNCHANGED streams

\* the upstream writes its next record, with the separator or, as its last
\* record, without; text() reads what arrives at once, the pipe in blocks
upstreamWrites ==
  /\ pc \in {"StreamingReply", "AggregatedReply"}
  /\ up.hasBody
  /\ ~up.openTail
  /\ Len(script) < MaxRecords
  /\ Len(up.pending) <= MaxPending
  /\ \E kind \in RecordKinds, sep \in BOOLEAN :
       LET bytes == RecordBytes(kind) \o (IF sep THEN Separator ELSE <<>>)
       IN /\ script' = Append(script, RecordClass(kind))
          /\ IF pc = "StreamingReply"
             THEN /\ up' = [up EXCEPT !.pending = @ \o bytes, !.openTail = ~sep]
                  /\ raw' = raw
             ELSE /\ up' = [up EXCEPT !.openTail = ~sep]
                  /\ raw' = raw \o bytes
  /\ UNCHANGED <<pc, req, resp, fetches, sent, st, downstream, splitChar>>
  /\ UNCHANGED streams

\* pipeThrough: the next block of the upstream's body goes through transform
pipeChunk ==
  /\ pc = "StreamingReply"
  /\ up.pending # <<>>
  /\ \E n \in ChunkSizes(Len(up.pending)) :
       /\ st' = transform(st, SubSeq(up.pending, 1, n))
       /\ up' = [up EXCEPT !.pending = Slice(@, n)]
       /\ splitChar' = (splitChar \/ up.pending[n] = "C3")
  /\ UNCHANGED <<pc, req, resp, fetches, sent, raw, downstream, script>>
  /\ UNCHANGED streams

\* pipeThrough: the upstream's body ends, and flush runs
pipeClose ==
  /\ pc = "StreamingReply"
  /\ up.pending = <<>>
  /\ st' = flush(st)
  /\ downstream' = "closed"
  /\ pc' = "Done"
  /\ UNCHANGED <<req, resp, fetches, sent, up, raw, script, splitChar>>
  /\ UNCHANGED streams

\* pipeThrough: the upstream's body errors; the error is passed to the readable
\* side, flush does not run, and the bytes in flight are never read
pipeError ==
  /\ pc = "StreamingReply"
  /\ downstream' = "errored"
  /\ up' = [up EXCEPT !.pending = <<>>]
  /\ pc' = "Failed"
  /\ UNCHANGED <<req, resp, fetches, sent, raw, st, script, splitChar>>
  /\ UNCHANGED streams

\* a pipe made with preventCancel: the caller's cancel stops at the readable
\* side, and the upstream's body goes on being read
downstreamCancelPreventCancel ==
  /\ pc = "StreamingReply"
  /\ downstream = "open"
  /\ downstream' = "cancelled"
  /\ UNCHANGED <<pc, req, resp, fetches, sent, up, raw, st, script, splitChar>>
  /\ UNCHANGED streams

\* the caller cancels the Response's body, the readable side of the transform
\* stream: its writable side is errored, and the pipe of pipeThrough (made with
\* no options) cancels the upstream's body; neither transform nor flush runs
\* again, and the bytes in flight are never read
downstreamCancel ==
  /\ pc = "StreamingReply"
  /\ downstream = "open"
  /\ downstream' = "cancelled"
  /\ up' = [up EXCEPT !.pending = <<>>, !.cancelled = TRUE]
  /\ pc' = "Failed"
  /\ UNCHANGED <<req, resp, fetches, sent, raw, st, script, splitChar>>
  /\ UNCHANGED streams

\* the upstream's body ends and text() resolves: the whole body, decoded at once
handleNonStreamingResponse ==
  /\ pc = "AggregatedReply"
  /\ \E id \in ResponseIds, created \in {Now} :
       LET rawContent == TextDecode(raw)
           content == parseInfiniaxSSE(rawContent)
       IN resp' = [status |-> 200, contentType |-> "application/json",
                   body |-> transformResponse(Str(content), Get(req.body, "model"), id,
                                              created)]
  /\ pc' = "Done"
  /\ UNCHANGED <<req, fetches, sent, up, raw, st, downstream, script, splitChar>>
  /\ UNCHANGED streams

\* a catch that answers with what was read before the body errored
textThrowsPartial ==
  /\ pc = "AggregatedReply"
  /\ up.hasBody
  /\ \E id \in ResponseIds :
       resp' = [status |-> 200, contentType |-> "application/json",
                body |-> transformResponse(Str(parseInfiniaxSSE(TextDecode(raw))),
                                           Get(req.body, "model"), id, Now)]
  /\ pc' = "Failed"
  /\ UNCHANGED <<req, fetches, sent, up, raw, st, downstream, script, splitChar>>
  /\ UNCHANGED streams

\* text() rejects: the body errors while it is read
textThrows ==
  /\ pc = "AggregatedReply"
  /\ up.hasBody
  /\ resp' = errorResponse("Upstream error", 502)
  /\ pc' = "Failed"
  /\ UNCHANGED <<req, fetches, sent, up, raw, st, downstream, script, splitChar>>
  /\ UNCHANGED streams

Next ==
  \/ handler
  \/ sendUpstream
  \/ fetchThrows
  \/ upstreamNotOk
  \/ handleStreamingResponse
  \/ awaitText
  \/ upstreamWrites
  \/ pipeChunk
  \/ pipeClose
  \/ pipeError
  \/ downstreamCancel
  \/ handleNonStreamingResponse
  \/ textThrows

Spec == Init /\ [][Next]_vars

\* the steps that take the call to its next state: the handler runs, fetch is
\* called, the upstream answers or the fetch is rejected, and the body that is
\* piped or read ends or errors
Resume ==
  \/ handler
  \/ sendUpstream
  \/ fetchThrows
  \/ upstreamNotOk
  \/ handleStreamingResponse
  \/ awaitText
  \/ pipeError
  \/ pipeClose
  \/ textThrows
  \/ handleNonStreamingResponse

\* every await of the call is eventually resumed
FairSpec == Init /\ [][Next]_vars /\ WF_vars(Resume)

(***************************************************************************)
(* Several streaming calls in flight: the runtime runs one transform or    *)
(* flush at a time, of any call whose body has a block ready or has ended  *)
(***************************************************************************)

\* generateId() and the model of each call
ResponseIdOf(c) == <<"chatcmpl-1", "chatcmpl-2", "chatcmpl-3">>[c]
ModelOf(c) == Str(<<(<<"m", "n", "o">>[c])>>)

\* the upstream body of each call: two records, the last one of every second
\* call without its separator
CallKinds(c) ==
  CASE c % 3 = 1 -> <<"a", "a">>
    [] c % 3 = 2 -> <<"e", "e">>
    [] OTHER -> <<"done", "a">>

CallBody(c) ==
  RecordBytes(CallKinds(c)[1]) \o Separator \o RecordBytes(CallKinds(c)[2])
    \o (IF c % 2 = 1 THEN Separator ELSE <<>>)

\* one name for every invocation: isFirst and buffer declared at module level
CellShared(c) == 1

\* where the isFirst and the buffer of call c live: they are declared with let
\* in the body of handleStreamingResponse, so each invocation has its own
Cell(c) == c

\* what the transform and the flush of call c read
View(c) ==
  [model |-> calls[c].model, responseId |-> calls[c].responseId,
   created |-> calls[c].created,
   isFirst |-> closures[Cell(c)].isFirst, buffer |-> closures[Cell(c)].buffer,
   out |-> calls[c].out]

StreamsInit ==
  /\ pc = "Received"
  /\ req = [method |-> "GET", path |-> "/", body |-> InvalidJson]
  /\ resp = NoResponse
  /\ fetches = 0
  /\ sent = NotSent
  /\ up = NoUpstream
  /\ raw = <<>>
  /\ st = NoStream
  /\ downstream = "none"
  /\ script = <<>>
  /\ splitChar = FALSE
  /\ calls = [c \in Calls |->
                [responseId |-> ResponseIdOf(c), model |-> ModelOf(c), created |-> Now,
                 out |-> <<>>, pending |-> CallBody(c), open |-> TRUE]]
  /\ closures = [c \in Calls |-> NoClosure]
  /\ alone = [c \in Calls |-> StreamState(ModelOf(c), ResponseIdOf(c), Now)]

\* the sizes of the next block of a body of which rem bytes are left: what
\* matters here is the order in which the blocks of the calls arrive
BlockSizes(rem) == {n \in {MaxSmallChunk, rem} : n <= rem}

\* a block of the body of call c goes through its transform
chunkArrives(c) ==
  /\ calls[c].open
  /\ calls[c].pending # <<>>
  /\ \E n \in BlockSizes(Len(calls[c].pending)) :
       LET chunk == SubSeq(calls[c].pending, 1, n)
           after == transform(View(c), chunk)
       IN /\ closures' = [closures EXCEPT
                            ![Cell(c)] = [isFirst |-> after.isFirst, buffer |-> after.buffer]]
          /\ calls' = [calls EXCEPT ![c].out = after.out, ![c].pending = Slice(@, n)]
          /\ alone' = [alone EXCEPT ![c] = transform(@, chunk)]
  /\ UNCHANGED single

\* the body of call c ends, and its flush runs
bodyEnds(c) ==
  /\ calls[c].open
  /\ calls[c].pending = <<>>
  /\ calls' = [calls EXCEPT ![c].out = flush(View(c)).out, ![c].open = FALSE]
  /\ alone' = [alone EXCEPT ![c] = flush(@)]
  /\ UNCHANGED closures
  /\ UNCHANGED single

StreamsNext == \E c \in Calls : chunkArrives(c) \/ bodyEnds(c)

StreamsSpec == StreamsInit /\ [][StreamsNext]_vars

(***************************************************************************)
(* What the caller has received                                            *)
(***************************************************************************)

IsContentFrame(f) == f.kind = "json" /\ f.data.choices[1].finish_reason = NoFinish

IsTerminalFrame(f) ==
  /\ f.kind = "json"
  /\ f.data.choices[1].finish_reason = "stop"
  /\ DOMAIN f.data.choices[1].delta = {}

ContentFrames(out) == SelectSeq(out, IsContentFrame)

\* the fragments of the content frames, in the order of the frames
Fragments(out) ==
  [i \in 1..Len(ContentFrames(out)) |-> ContentFrames(out)[i].data.choices[1].delta.content]

\* the fragments a record of a class carries
ClassFragments(class) ==
  CASE class = "a" -> <<Str(<<"a">>)>>
    [] class = "e" -> <<Str(<<"é">>)>>
    [] OTHER -> <<>>

\* the fragments of the records the upstream has written, in their order
ScriptFragments == Flatten([i \in 1..Len(script) |-> ClassFragments(script[i])])

WellFormedScript == \A i \in 1..Len(script) : script[i] \in {"a", "e", "none"}

\* out ends with the terminal chunk and the sentinel, and holds neither before
EndsWithTerminalPair(out) ==
  /\ Len(out) >= 2
  /\ IsTerminalFrame(out[Len(out) - 1])
  /\ out[Len(out)] = DoneFrame
  /\ \A i \in 1..(Len(out) - 2) : IsContentFrame(out[i])

StreamingReplySent == resp.status = 200 /\ resp.contentType = "text/event-stream"

(***************************************************************************)
(* C1: when the upstream's body is made of well-formed records and has     *)
(* been piped to its end, in whatever blocks, the content frames carry     *)
(* exactly the fragments of the records, unchanged and in their order.     *)
(***************************************************************************)
C1_ChunkSplitIndependence ==
  (downstream = "closed" /\ WellFormedScript) => Fragments(st.out) = ScriptFragments

(***************************************************************************)
(* C2: a streaming response that has finished, however the upstream's body *)
(* ended, ends with one terminal chunk followed by [DONE], which appear    *)
(* nowhere before; and while it has not finished, or when the caller has   *)
(* cancelled it, it holds content frames only.                             *)
(***************************************************************************)
C2_StreamTermination ==
  StreamingReplySent =>
    IF pc \in {"Done", "Failed"} /\ downstream # "cancelled"
    THEN EndsWithTerminalPair(st.out)
    ELSE \A i \in 1..Len(st.out) : IsContentFrame(st.out[i])

(***************************************************************************)
(* C3: of the content frames of a streaming response, the first has the    *)
(* delta {role: "assistant", content} and every later one a delta with     *)
(* content only, at every moment of the stream and after its end.          *)
(***************************************************************************)
C3_FirstChunkFraming ==
  \A i \in 1..Len(ContentFrames(st.out)) :
    LET delta == ContentFrames(st.out)[i].data.choices[1].delta
    IN IF i = 1
       THEN DOMAIN delta = {"role", "content"} /\ delta.role = "assistant"
       ELSE DOMAIN delta = {"content"}

\* the stream has ended, and its second content frame came from the buffer
\* left over at the end
C3_Witness ==
  /\ downstream = "closed"
  /\ up.openTail
  /\ script = <<"a", "none", "e">>
  /\ Len(ContentFrames(st.out)) = 2

(***************************************************************************)
(* C4: the content of the non-streaming response is the concatenation, in  *)
(* order, of the fragments the streaming parser emits for the same body    *)
(* (here: given to it in one block).                                       *)
(***************************************************************************)
StreamParse(bytes) == flush(transform(StreamState(Undefined, "", 0), bytes)).out

ConcatFragments(out) ==
  Flatten([i \in 1..Len(Fragments(out)) |-> ToJsString(Fragments(out)[i])])

AggregatedReplySent == pc = "Done" /\ fetches = 1 /\ resp.contentType = "application/json"

C4_AggregationEqualsStreamingParse ==
  AggregatedReplySent =>
    resp.body.choices[1].message.content = Str(ConcatFragments(StreamParse(raw)))

(***************************************************************************)
(* C5: after the outbound call, an upstream status of 401 or 403 is        *)
(* answered 401 "Authentication failed", every other status that is not a  *)
(* success 502 "Upstream error", and a failure of the call itself (no      *)
(* status) 502 "Upstream error", for streaming and other requests alike.   *)
(***************************************************************************)
ErrorReply(status, message) ==
  [status |-> status,
   contentType |-> "application/json",
   body |-> [error |-> [message |-> message]]]

C5_UpstreamFailureMapping ==
  (pc = "Failed" /\ fetches = 1 /\ (up.status < 200 \/ up.status > 299)) =>
    IF up.status \in {401, 403}
    THEN resp = ErrorReply(401, "Authentication failed")
    ELSE resp = ErrorReply(502, "Upstream error")

\* a streaming request whose upstream answered 403
C5_Witness ==
  /\ pc = "Failed"
  /\ isStreaming(req.body)
  /\ up.status = 403
  /\ resp.status = 401

(***************************************************************************)
(* C6: once the chat handler has looked at a POST of the chat path, a body *)
(* that is no JSON has been answered 400 "Invalid JSON", and a JSON object *)
(* without model or without messages 400 "Missing required fields: model   *)
(* and messages"; the call has Failed and fetch has not been called.       *)
(***************************************************************************)
C6_RequestValidation ==
  (req.method = "POST" /\ req.path = ChatPath /\ pc # "Received") =>
    /\ req.body.t = "invalid" =>
         /\ pc = "Failed"
         /\ resp = ErrorReply(400, "Invalid JSON")
         /\ fetches = 0
    /\ (req.body.t = "obj" /\ ~({"model", "messages"} \subseteq DOMAIN req.body.v)) =>
         /\ pc = "Failed"
         /\ resp = ErrorReply(400, "Missing required fields: model and messages")
         /\ fetches = 0

\* the body {"messages":[]} has been answered
C6_Witness ==
  /\ pc = "Failed"
  /\ req.body.t = "obj"
  /\ DOMAIN req.body.v = {"messages"}
  /\ resp.status = 400
  /\ fetches = 0

(***************************************************************************)
(* C7: the body of the outbound call has the model of the request as its   *)
(* modelId and the messages of the request, all and in their order, as its *)
(* messages; it has webSearchEnabled, and then true, exactly when the      *)
(* web_search of the request is truthy.                                    *)
(***************************************************************************)
C7_RequestMapping ==
  fetches > 0 =>
    /\ sent.modelId = req.body.v.model
    /\ sent.messages = req.body.v.messages
    /\ ("webSearchEnabled" \in DOMAIN sent)
         <=> ("web_search" \in DOMAIN req.body.v /\ Truthy(req.body.v.web_search))
    /\ ("webSearchEnabled" \in DOMAIN sent) => sent.webSearchEnabled = JsTrue

\* three messages and web_search: true have been sent
C7_Witness ==
  /\ fetches > 0
  /\ Len(sent.messages.v) = 3
  /\ "webSearchEnabled" \in DOMAIN sent

(***************************************************************************)
(* C8: a streaming response whose upstream has written a record that does  *)
(* not parse keeps its status 200 and stays open while the body is piped;   *)
(* when the body has been piped to its end there is one content frame for   *)
(* each record that parses to a fragment, in the order of the records, and  *)
(* the terminal frame follows them; each carries the fragment of its        *)
(* record, but that a fragment of more than one byte per character may have *)
(* been cut inside a character by the blocks (C1).                          *)
(***************************************************************************)
MalformedWritten == \E i \in 1..Len(script) : script[i] \in {"bad", "multi"}

C8_MalformedFrameTolerance ==
  (downstream # "none" /\ MalformedWritten) =>
    /\ resp.status = 200
    /\ pc = "StreamingReply" => downstream = "open"
    /\ downstream = "closed" =>
         /\ Len(Fragments(st.out)) = Len(ScriptFragments)
         /\ \A i \in 1..Len(ScriptFragments) :
              \/ Fragments(st.out)[i] = ScriptFragments[i]
              \/ splitChar /\ ScriptFragments[i] = Str(<<"é">>)
         /\ EndsWithTerminalPair(st.out)

\* `data: {not json` between two records that parse
C8_Witness ==
  /\ downstream = "closed"
  /\ ~splitChar
  /\ script = <<"a", "bad", "e">>
  /\ Len(Fragments(st.out)) = 2

(***************************************************************************)
(* C9: a Response that is not a 200 has a status in {400, 401, 404, 500,   *)
(* 502} and the body {error: {message}} with one of the fixed messages, and *)
(* the call has Failed; a Failed call that sent no stream has such a        *)
(* Response; the exception of the chat handler (the body null) is answered  *)
(* 500 "Internal server error".                                             *)
(***************************************************************************)
ErrorMessages ==
  {"Invalid JSON", "Missing required fields: model and messages",
   "Authentication failed", "Upstream error", "No response body from upstream",
   "Internal server error", "Not Found"}

C9_ErrorResponseShape ==
  /\ resp.status \notin {0, 200} =>
       /\ resp.status \in {400, 401, 404, 500, 502}
       /\ resp.contentType = "application/json"
       /\ DOMAIN resp.body = {"error"}
       /\ DOMAIN resp.body.error = {"message"}
       /\ resp.body.error.message \in ErrorMessages
       /\ pc = "Failed"
  /\ (pc = "Failed" /\ ~StreamingReplySent) => resp.status \notin {0, 200}
  /\ (req.method = "POST" /\ req.path = ChatPath /\ req.body.t = "null" /\ pc # "Received")
       => resp = ErrorReply(500, "Internal server error")

\* the TypeError of the chat handler has been answered
C9_Witness ==
  /\ pc = "Failed"
  /\ req.body.t = "null"
  /\ resp.status = 500

(***************************************************************************)
(* C10: a request that does not stream, whose upstream answered ok with a  *)
(* body of no record, of records without a fragment or of payloads that    *)
(* are no JSON, gets, once the body has been read, a 200 chat completion   *)
(* with the content "" and the finish_reason "stop".                       *)
(***************************************************************************)
C10_EmptyAggregationIsSuccess ==
  (pc = "Done" /\ fetches = 1 /\ ~isStreaming(req.body)
     /\ \A i \in 1..Len(script) : script[i] \in {"none", "bad"}) =>
    /\ resp.status = 200
    /\ resp.body.object = "chat.completion"
    /\ Len(resp.body.choices) = 1
    /\ resp.body.choices[1].message = [role |-> "assistant", content |-> Str(<<>>)]
    /\ resp.body.choices[1].finish_reason = "stop"

\* a done marker and a payload that is no JSON, and nothing else
C10_Witness ==
  /\ pc = "Done"
  /\ ~isStreaming(req.body)
  /\ script = <<"none", "bad">>
  /\ resp.status = 200

(***************************************************************************)
(* C11: once the handler has routed a request, POST of the chat path has   *)
(* the chat handler's answer (never the 404), GET of the models path the   *)
(* model list and GET of / the health reply; every other method and path,  *)
(* a known path with another method included, has 404 "Not Found", the     *)
(* call has Failed and fetch has not been called; and fetch is called for  *)
(* POST of the chat path alone.                                            *)
(***************************************************************************)
IsNotFound == resp.status = 404 /\ resp = ErrorReply(404, "Not Found")

C11_Routing ==
  /\ fetches > 0 => (req.method = "POST" /\ req.path = ChatPath)
  /\ pc # "Received" =>
       IF req.method = "POST" /\ req.path = ChatPath
         THEN resp.status # 404 /\ resp # HealthResponse
       ELSE IF req.method = "GET" /\ req.path = ModelsPath
         THEN pc = "Done" /\ resp.status = 200 /\ resp.body.object = "list"
       ELSE IF req.method = "GET" /\ req.path = "/"
         THEN pc = "Done" /\ resp = HealthResponse
       ELSE pc = "Failed" /\ IsNotFound /\ fetches = 0

\* GET of the chat path has been answered
C11_Witness ==
  /\ req.method = "GET"
  /\ req.path = ChatPath
  /\ pc = "Failed"
  /\ resp.status = 404

(***************************************************************************)
(* C12: once the chat handler has looked at a body that is JSON but no     *)
(* object (null, a number, a string, an array), the call has Failed with a *)
(* 400.                                                                    *)
(***************************************************************************)
C12_StructurallyWrongBodyIsBadRequest ==
  (req.method = "POST" /\ req.path = ChatPath /\ pc # "Received"
     /\ req.body.t \in {"null", "num", "str", "arr"}) =>
    pc = "Failed" /\ resp.status = 400

(***************************************************************************)
(* C13: a call whose upstream answered ok without a body ends Failed with  *)
(* a 502, whether the request streams or not.                              *)
(***************************************************************************)
C13_MissingUpstreamBody ==
  (fetches = 1 /\ Ok(up.status) /\ ~up.hasBody /\ pc \in {"Done", "Failed"}) =>
    pc = "Failed" /\ resp.status = 502

(***************************************************************************)
(* C14: fetch is called at most once in a call; a chat request that passes *)
(* the validation has caused no call of fetch while it is Validated and    *)
(* exactly one from then on, whatever the outcome (a rejected fetch, a     *)
(* status that is not ok, no body, a failure while the body is read); any  *)
(* other request causes none.                                              *)
(***************************************************************************)
PassesValidation ==
  /\ req.method = "POST"
  /\ req.path = ChatPath
  /\ req.body.t = "obj"
  /\ Truthy(Get(req.body, "model"))
  /\ Truthy(Get(req.body, "messages"))

C14_SingleOutboundCall ==
  /\ fetches <= 1
  /\ ~PassesValidation => fetches = 0
  /\ pc \in {"Received", "Validated"} => fetches = 0
  /\ (PassesValidation /\ pc \notin {"Received", "Validated"}) => fetches = 1

\* the one fetch was rejected, and the call has ended
C14_Witness ==
  /\ pc = "Failed"
  /\ fetches = 1
  /\ up.status = 0
  /\ resp.status = 502

(***************************************************************************)
(* C15: a chat call changes its state only along Received -> Validated ->  *)
(* UpstreamSent -> StreamingReply or AggregatedReply -> Done, or from a    *)
(* state that is not terminal to Failed; it never leaves Done or Failed;   *)
(* its Response, once returned, is never replaced, and a call in Done or   *)
(* Failed has one; and, every await being resumed, the call eventually is  *)
(* in Done or Failed.                                                      *)
(***************************************************************************)
ChatCall == req.method = "POST" /\ req.path = ChatPath

Terminal == pc \in {"Done", "Failed"}

StateEdges ==
  {<<"Received", "Validated">>, <<"Validated", "UpstreamSent">>,
   <<"UpstreamSent", "StreamingReply">>, <<"UpstreamSent", "AggregatedReply">>,
   <<"StreamingReply", "Done">>, <<"AggregatedReply", "Done">>}
  \cup {<<s, "Failed">> : s \in {"Received", "Validated", "UpstreamSent",
                                 "StreamingReply", "AggregatedReply"}}

C15_DispatcherStateMachine ==
  /\ [][ChatCall => /\ pc' = pc \/ <<pc, pc'>> \in StateEdges
                    /\ resp.status # 0 => resp' = resp]_vars
  /\ [](ChatCall /\ Terminal => resp.status # 0)
  /\ (ChatCall => <>[]Terminal)

\* a streaming call that went through every state to Done
C15_Witness ==
  /\ ChatCall
  /\ pc = "Done"
  /\ downstream = "closed"
  /\ Len(script) = MaxRecords

(***************************************************************************)
(* C16: for a request that does not stream, no Response exists while the   *)
(* upstream's body is read; a call that Failed after an ok answer of the   *)
(* upstream (the read of the body failed) has 502 "Upstream error"; and a  *)
(* 200 exists only in Done, where its content is the parse of all the      *)
(* bytes the upstream has written.                                         *)
(***************************************************************************)
AggregatingCall == fetches = 1 /\ ~isStreaming(req.body)

C16_AggregationAllOrNothing ==
  AggregatingCall =>
    /\ pc \in {"UpstreamSent", "AggregatedReply"} => resp.status = 0
    /\ (pc = "Failed" /\ Ok(up.status)) => resp = ErrorReply(502, "Upstream error")
    /\ resp.status = 200 =>
         /\ pc = "Done"
         /\ resp.body.choices[1].message.content
              = Str(parseInfiniaxSSE(TextDecode(raw)))

\* the read failed after two records with fragments had arrived
C16_Witness ==
  /\ AggregatingCall
  /\ pc = "Failed"
  /\ script = <<"a", "e">>
  /\ raw # <<>>
  /\ resp.status = 502

(***************************************************************************)
(* C17: when the upstream has written its last record without the          *)
(* separator, that record stays in the buffer while the body is piped: with *)
(* every byte read and the body not yet ended, the content frames are those *)
(* of the earlier records; when the body has ended there is, after them and *)
(* before the terminal frame, the one frame of the last record if it parses *)
(* to a fragment, and none if it does not. A frame carries the fragment of  *)
(* its record, but that a fragment of more than one byte per character may  *)
(* have been cut inside a character by the blocks (C1).                     *)
(***************************************************************************)
EarlierFragments ==
  Flatten([i \in 1..(Len(script) - 1) |-> ClassFragments(script[i])])

FrameCarries(i, fragments) ==
  \/ Fragments(st.out)[i] = fragments[i]
  \/ splitChar /\ fragments[i] = Str(<<"é">>)

C17_LeftoverRecordAtStreamEnd ==
  (up.openTail /\ up.pending = <<>>) =>
    /\ (pc = "StreamingReply") =>
         /\ Len(Fragments(st.out)) = Len(EarlierFragments)
         /\ \A i \in 1..Len(EarlierFragments) : FrameCarries(i, EarlierFragments)
    /\ (downstream = "closed") =>
         /\ Len(Fragments(st.out)) = Len(ScriptFragments)
         /\ \A i \in 1..Len(ScriptFragments) : FrameCarries(i, ScriptFragments)
         /\ EndsWithTerminalPair(st.out)

\* the last record, left without a separator, gave the second frame
C17_Witness ==
  /\ downstream = "closed"
  /\ up.openTail
  /\ script = <<"e", "none", "a">>
  /\ Len(Fragments(st.out)) = 2
  /\ Fragments(st.out)[2] = Str(<<"a">>)

(***************************************************************************)
(* C18: with several streaming calls in flight and their blocks arriving   *)
(* in any order, the closure (first-fragment flag, buffer) and the frames  *)
(* of each call are those of a stream that is given the same blocks with   *)
(* no other call in flight, and every frame of a call carries the id and   *)
(* the model of that call.                                                 *)
(***************************************************************************)
C18_CallIsolation ==
  \A c \in Calls :
    /\ View(c) = alone[c]
    /\ \A i \in 1..Len(calls[c].out) :
         calls[c].out[i].kind = "json" =>
           /\ calls[c].out[i].data.id = ResponseIdOf(c)
           /\ calls[c].out[i].data.model = ModelOf(c)

\* two calls are each in the middle of their second record, after a frame
C18_Witness ==
  /\ \A c \in {1, 2} :
       /\ calls[c].open
       /\ closures[c].buffer # <<>>
       /\ Len(calls[c].out) = 1
  /\ Fragments(calls[1].out) = <<Str(<<"a">>)>>
  /\ Fragments(calls[2].out) = <<Str(<<"é">>)>>

(***************************************************************************)
(* C19: every frame of a streaming response that carries a chunk object,   *)
(* the terminal chunk included, has the response id and the timestamp the  *)
(* call took when it started (second 1, whatever the time is now) and the  *)
(* model of the request.                                                   *)
(***************************************************************************)
C19_StableIdentity ==
  StreamingReplySent =>
    /\ st.responseId \in ResponseIds
    /\ st.created = 1
    /\ \A i \in 1..Len(st.out) :
         st.out[i].kind = "json" =>
           /\ st.out[i].data.id = st.responseId
           /\ st.out[i].data.created = st.created
           /\ st.out[i].data.model = Get(req.body, "model")

\* a stream of three records has ended, three seconds after the call started
C19_Witness ==
  /\ downstream = "closed"
  /\ script = <<"a", "e", "a">>
  /\ Now = 4
  /\ Len(st.out) = 5

(***************************************************************************)
(* C20: when the caller has cancelled the streaming response, the          *)
(* upstream's body is cancelled, no byte of it is left to be read, the     *)
(* call has ended, and the frames it produced are content frames (no       *)
(* terminal chunk, no [DONE]); and from then on no step reads the          *)
(* upstream's body, lets the upstream write, or adds a frame.              *)
(***************************************************************************)
C20_DownstreamDisconnect ==
  /\ [](downstream = "cancelled" =>
          /\ up.cancelled
          /\ up.pending = <<>>
          /\ pc = "Failed"
          /\ \A i \in 1..Len(st.out) : IsContentFrame(st.out[i]))
  /\ [][downstream = "cancelled" =>
          /\ downstream' = "cancelled"
          /\ st' = st
          /\ up' = up
          /\ script' = script]_vars

\* cancelled after the first of two records had given its frame
C20_Witness ==
  /\ downstream = "cancelled"
  /\ Len(script) = 2
  /\ Len(ContentFrames(st.out)) = 1
  /\ st.buffer # <<>>

(***************************************************************************)
(* C21: a streaming response whose upstream has written a record without a *)
(* fragment (a done marker, an empty chunk) stays open while the body is   *)
(* piped and holds content frames only; when the body has ended there is   *)
(* one content frame for each record with a fragment, those written after  *)
(* the record without one included, in the order of the records, and the   *)
(* terminal frame follows them. A frame carries the fragment of its        *)
(* record, but that a fragment of more than one byte per character may     *)
(* have been cut inside a character by the blocks (C1).                    *)
(***************************************************************************)
NoFragmentWritten == \E i \in 1..Len(script) : script[i] = "none"

C21_EndOfBytesOnlyCompletion ==
  (StreamingReplySent /\ NoFragmentWritten) =>
    /\ pc = "StreamingReply" =>
         /\ downstream = "open"
         /\ \A i \in 1..Len(st.out) : IsContentFrame(st.out[i])
    /\ downstream = "closed" =>
         /\ Len(Fragments(st.out)) = Len(ScriptFragments)
         /\ \A i \in 1..Len(ScriptFragments) : FrameCarries(i, ScriptFragments)
         /\ EndsWithTerminalPair(st.out)

\* two fragments written after a record without one have been emitted
C21_Witness ==
  /\ downstream = "closed"
  /\ ~up.openTail
  /\ script = <<"none", "a", "a">>
  /\ Fragments(st.out) = <<Str(<<"a">>), Str(<<"a">>)>>

(***************************************************************************)
(* C22: once the upstream has answered ok, the call is in StreamingReply   *)
(* or has the text/event-stream Response only if the stream of the request *)
(* is the boolean true, and is in AggregatedReply or has the chat          *)
(* completion only if it is not; when the stream is true and the upstream  *)
(* has a body the Response is the text/event-stream one, and when it is    *)
(* not true the call that is Done has the one chat completion. The request *)
(* does not change, so neither does the mode.                              *)
(***************************************************************************)
StreamIsTrue ==
  /\ "stream" \in DOMAIN req.body.v
  /\ req.body.v.stream.t = "bool"
  /\ req.body.v.stream.v = TRUE

IsChatCompletion ==
  /\ resp.status = 200
  /\ resp.contentType = "application/json"
  /\ resp.body.object = "chat.completion"

C22_ReplyModeSelection ==
  /\ [][req' = req]_vars
  /\ [](  (fetches = 1 /\ Ok(up.status)) =>
            /\ (pc = "StreamingReply" \/ resp.contentType = "text/event-stream"
                  \/ downstream # "none") => StreamIsTrue
            /\ (pc = "AggregatedReply" \/ IsChatCompletion) => ~StreamIsTrue
            /\ (StreamIsTrue /\ up.hasBody) =>
                 /\ resp.status = 200
                 /\ resp.contentType = "text/event-stream"
            /\ (~StreamIsTrue /\ pc = "Done") => IsChatCompletion)

\* a request with stream: 1 has its aggregated response
C22_Witness ==
  /\ fetches = 1
  /\ pc = "Done"
  /\ "stream" \in DOMAIN req.body.v
  /\ req.body.v.stream.t = "num"
  /\ resp.contentType = "application/json"
  /\ script # <<>>

(***************************************************************************)
(* C23: the buffer never holds a complete separator; and each block that   *)
(* goes through transform leaves in the buffer exactly the text that       *)
(* follows the last separator of what the buffer held and the block        *)
(* brought (all of it, if there is none), while the pieces before that     *)
(* separator give their frames in that step, once and in order, and are    *)
(* in the buffer no more.                                                  *)
(***************************************************************************)
SeparatorStarts(text) ==
  {i \in 1..(Len(text) - 1) : text[i] = NL /\ text[i + 1] = NL}

\* the number of characters up to and including the last separator
LastSeparatorEnd(text) ==
  LET at == SeparatorStarts(text)
  IN IF at = {} THEN 0 ELSE 1 + CHOOSE i \in at : \A j \in at : j <= i

PieceFragments(pieces) ==
  Flatten([i \in 1..Len(pieces) |->
             LET r == RecordChunk(pieces[i])
             IN IF r.emit THEN <<r.chunk>> ELSE <<>>])

\* what a step of transform leaves of `text`, cut after `cut` characters
CarriedOver(text, cut) ==
  [buffer |-> SubSeq(text, cut + 1, Len(text)),
   fragments |-> IF cut = 0 THEN <<>>
                 ELSE PieceFragments(SplitRecords(SubSeq(text, 1, cut - 2)))]

CarriedOverText(text) == CarriedOver(text, LastSeparatorEnd(text))

C23_CarryOverBuffer ==
  /\ [](SeparatorStarts(st.buffer) = {})
  /\ [][\A n \in 1..Len(up.pending) :
          ( /\ pc = "StreamingReply"
            /\ pc' = "StreamingReply"
            /\ Len(up'.pending) = Len(up.pending) - n ) =>
          \E left \in {CarriedOverText(st.buffer \o TextDecode(SubSeq(up.pending, 1, n)))} :
             /\ st'.buffer = left.buffer
             /\ Fragments(st'.out) = Fragments(st.out) \o left.fragments
             /\ Len(st'.out) = Len(Fragments(st'.out))]_vars

\* two records have given their frames, and the start of a third is held
C23_Witness ==
  /\ pc = "StreamingReply"
  /\ Len(script) = 3
  /\ Len(Fragments(st.out)) = 2
  /\ st.buffer # <<>>
  /\ up.pending # <<>>

=============================================================================
